---- MODULE Spec2Model ----
(***************************************************************************)
(* Ledger and background-simulation engine of the banking backend.         *)
(*                                                                         *)
(* The durable store (users, mining jobs, transactions, notifications,     *)
(* audit log) is shared by request handlers and by the cron-driven         *)
(* services.  Every handler is an async function: each `await` on a store  *)
(* call is one atomic step, and other handlers run between two steps.      *)
(* A loaded document is a private copy; save() validates the paths that    *)
(* differ from the loaded values and writes exactly those paths.           *)
(* Money is counted in hundredths of a currency unit.                      *)
(***************************************************************************)
EXTENDS Integers, Sequences, FiniteSets, TLC

(***************************************************************************)
(* Bounds of the checked configuration.                                    *)
(***************************************************************************)
MaxOps == 2          \* handler invocations started in one behaviour
MaxFaults == 1       \* store calls that fail in one behaviour

NumWorkers == 2      \* handler invocations in flight at the same time

MaxCycleOps == 3     \* invocations in one behaviour of the toggle and cycle runs
MaxNow == 60         \* minute after which the clock stops in one behaviour
TickMinutes == 25    \* minutes between two readings of the clock
AddressBatch == 3    \* addresses one generator run makes (10 in miningService.js)

Workers == 1..NumWorkers

(***************************************************************************)
(* Program constants.                                                      *)
(***************************************************************************)
Fiat == <<"USD", "EUR", "GBP", "CNY", "NGN">>
Cryptos == <<"BTC", "TRX", "TON", "ETH">>
Currencies == Fiat \o Cryptos
SeqRange(s) == {s[i] : i \in 1..Len(s)}
CurrencySet == SeqRange(Currencies)
FiatSet == SeqRange(Fiat)
CryptoSet == SeqRange(Cryptos)

\* n currency units, in hundredths
Units(n) == 100 * n

SeedCapital == Units(10000)

TxnTypes == {"send", "receive", "transfer", "crypto_send", "crypto_receive", "mining", "trading"}

(***************************************************************************)
(* Request inputs of the checked configuration.                            *)
(***************************************************************************)
ReqFiat == {"USD"}
ReqCrypto == {"BTC"}
Amounts == {Units(60), Units(150)}
CreditAmounts == {Units(60)}
IntlAmounts == Amounts \cup {Units(-60)}
AdminAmounts == {0, Units(100), Units(-60)}
Refs == {"", "R1"}
TransferFrom == {"USD"}
TransferTo == {"USD", "EUR"}
InitBalance == Units(100)
InitProfit == Units(30)

VARIABLES
  users,        \* users collection: id -> document
  txns,         \* transactions collection, in insertion order
  notifs,       \* notifications collection, in insertion order
  audits,       \* audit log collection, in insertion order
  procs,        \* handler invocations: worker -> local state
  started,      \* number of handler invocations started
  faults,       \* number of store calls that have failed
  nextRef,      \* number of references generated by the pre-save hook
  ledger,       \* history: id -> balances with every committed save applied as a delta
  jobs,         \* mining collection, in insertion order
  now,          \* Date.now(), in minutes
  quota,        \* handler invocations this behaviour admits
  offSeq        \* history: id -> invocation number of the last toggle-off, 0 when toggled on since

mining == <<jobs, now>>

\* the accounts of the users collection
Users == DOMAIN users
vars == <<users, txns, notifs, audits, procs, started, faults, nextRef, ledger, jobs, now,
          quota, offSeq>>

(***************************************************************************)
(* Documents.                                                              *)
(***************************************************************************)
ZeroBalances == [c \in CurrencySet |-> 0]

NoDoc == [bal |-> ZeroBalances, capital |-> 0, profit |-> 0, robot |-> FALSE, status |-> "none"]

NoTxn == [user |-> "", type |-> "", currency |-> "", amount |-> 0, status |-> "",
          reference |-> "", fromCurrency |-> "", toCurrency |-> "",
          convertedAmount |-> 0, exchangeRate |-> <<0, 1>>]

\* history of the job a sweep handled last: what it read and how it ended
\* history of the toggles: no toggle-off is in force
NeverOff == [mining |-> 0, trading |-> 0]

NoPrev == [job |-> 0, owner |-> "none", outcome |-> "none"]

IdleProc == [op |-> "idle", pc |-> "idle", user |-> "", cur |-> "", cur2 |-> "",
             amount |-> 0, ref |-> "", base |-> NoDoc, doc |-> NoDoc,
             enabled |-> FALSE, list |-> <<>>, idx |-> 0, count |-> 0, made |-> <<>>,
             result |-> "", solo |-> TRUE, snap |-> NoDoc, snapTx |-> 0,
             snapNotif |-> 0, snapAudit |-> 0, snapJobs |-> 0, prev |-> NoPrev,
             seq |-> 0, txnId |-> 0]

\* userSchema.balances / userSchema.trading: min 0 on every modified path
UserValid(base, doc) ==
  /\ \A c \in CurrencySet : doc.bal[c] # base.bal[c] => doc.bal[c] >= 0
  /\ doc.capital # base.capital => doc.capital >= 0
  /\ doc.profit # base.profit => doc.profit >= 0

\* mutant of SetPath: the write is an increment by the local difference
SetPathAsInc(stored, base, doc) == stored + (doc - base)

\* save() writes the local value of a modified path
SetPath(stored, base, doc) == IF doc # base THEN doc ELSE stored

\* mutant of SaveUser: the save writes the whole local document
SaveUserWhole(stored, base, doc) ==
  [stored EXCEPT !.bal = doc.bal, !.capital = doc.capital, !.profit = doc.profit,
                 !.robot = doc.robot]

\* user.save(): $set of the modified paths on the stored document
SaveUser(stored, base, doc) ==
  [stored EXCEPT
     !.bal = [c \in CurrencySet |-> SetPath(stored.bal[c], base.bal[c], doc.bal[c])],
     !.capital = SetPath(stored.capital, base.capital, doc.capital),
     !.profit = SetPath(stored.profit, base.profit, doc.profit),
     !.robot = IF doc.robot # base.robot THEN doc.robot ELSE stored.robot]

\* history: the same save applied as deltas
LedgerAfter(l, base, doc) ==
  [c \in CurrencySet |-> l[c] + (doc.bal[c] - base.bal[c])]

\* transactionSchema: required and min validators, enum of type
TxnValid(t) ==
  /\ t.user # ""
  /\ t.type \in TxnTypes
  /\ t.currency \in CurrencySet
  /\ t.amount >= 0
  /\ t.convertedAmount >= 0

\* unique sparse index on reference
RefTaken(r) == \E i \in 1..Len(txns) : txns[i].reference = r

\* transactionSchema.pre('save'): a reference is generated when none is given
GenRef(n) == "TXN-" \o ToString(n)

WithRef(t) == IF t.reference = "" THEN [t EXCEPT !.reference = GenRef(nextRef + 1)] ELSE t

(***************************************************************************)
(* Scheduling of handler invocations.                                      *)
(***************************************************************************)
Free(p) == procs[p].pc \in {"idle", "done"}
Running(p) == ~Free(p)
OthersRunning(p) == \E q \in DOMAIN procs : q # p /\ Running(q)

\* a new invocation on slot p; every invocation in flight stops being alone
Begin(p, rec) ==
  [q \in DOMAIN procs |->
     IF q = p THEN [rec EXCEPT !.solo = ~OthersRunning(p), !.seq = started + 1]
     ELSE IF Running(q) THEN [procs[q] EXCEPT !.solo = FALSE]
     ELSE procs[q]]

\* invocations take the lowest free slot
Slot(p) ==
  /\ Free(p)
  /\ \A q \in Workers : Free(q) => p <= q
  /\ started < quota

\* protect: the request is served for an active account
CanStart(p, u) ==
  /\ Slot(p)
  /\ users[u].status = "active"

Snapshot(rec, u) ==
  [rec EXCEPT !.snap = users[u], !.snapTx = Len(txns),
              !.snapNotif = Len(notifs), !.snapAudit = Len(audits),
              !.snapJobs = Len(jobs)]

Finish(p, res) == procs' = [procs EXCEPT ![p].pc = "done", ![p].result = res]

(***************************************************************************)
(* Steps shared by the handlers.                                           *)
(***************************************************************************)
\* await user.save()
SaveStep(p, nextPc) ==
  LET r == procs[p] IN
  IF UserValid(r.base, r.doc)
  THEN /\ users' = [users EXCEPT ![r.user] = SaveUser(@, r.base, r.doc)]
       /\ ledger' = [ledger EXCEPT ![r.user] = LedgerAfter(@, r.base, r.doc)]
       /\ procs' = [procs EXCEPT ![p].pc = nextPc, ![p].base = r.doc]
  ELSE /\ Finish(p, "FAILED")
       /\ UNCHANGED <<users, ledger>>

\* await Transaction.create(t); await Notification.create(..); await AuditLog.createLog(..)
\* A rejected record or a store error at Transaction.create ends the handler
\* with nothing appended; an error of Notification.create or
\* AuditLog.createLog ends it with the Transaction appended.
RecordStep(p, t, notifType, auditAction, okResult) ==
  LET r == procs[p] IN
  \/ /\ TxnValid(t) /\ ~(t.reference # "" /\ RefTaken(t.reference))
     /\ txns' = Append(txns, WithRef(t))
     /\ nextRef' = IF t.reference = "" THEN nextRef + 1 ELSE nextRef
     /\ notifs' = Append(notifs, [user |-> r.user, type |-> notifType])
     /\ audits' = Append(audits, [user |-> r.user, action |-> auditAction])
     /\ procs' = [procs EXCEPT ![p].pc = "done", ![p].result = okResult,
                               ![p].txnId = Len(txns) + 1]
     /\ UNCHANGED faults
  \/ /\ ~(TxnValid(t) /\ ~(t.reference # "" /\ RefTaken(t.reference)))
     /\ Finish(p, "FAILED")
     /\ UNCHANGED <<txns, nextRef, notifs, audits, faults>>
  \/ /\ faults < MaxFaults
     /\ faults' = faults + 1
     /\ Finish(p, "FAILED")
     /\ UNCHANGED <<txns, nextRef, notifs, audits>>
  \/ /\ TxnValid(t) /\ ~(t.reference # "" /\ RefTaken(t.reference))
     /\ faults < MaxFaults
     /\ faults' = faults + 1
     /\ txns' = Append(txns, WithRef(t))
     /\ nextRef' = IF t.reference = "" THEN nextRef + 1 ELSE nextRef
     /\ \E sink \in {"notification", "audit"} :
          notifs' = IF sink = "audit"
                    THEN Append(notifs, [user |-> r.user, type |-> notifType])
                    ELSE notifs
     /\ audits' = audits
     /\ procs' = [procs EXCEPT ![p].pc = "done", ![p].result = "FAILED",
                               ![p].txnId = Len(txns) + 1]

(***************************************************************************)
(* POST /api/transactions/send                                             *)
(***************************************************************************)
\* mutant of Insufficient: only an empty balance is refused
InsufficientWhenEmpty(balance, a) == balance <= 0

\* user.balances[currency] < amount
Insufficient(balance, a) == balance < a

DebitLoad(p, op, u, c, a, ref) ==
  LET d == users[u]
      rec == Snapshot([IdleProc EXCEPT !.op = op, !.user = u, !.cur = c, !.amount = a,
                                       !.ref = ref, !.base = d], u)
  IN
  /\ CanStart(p, u)
  /\ started' = started + 1
  /\ UNCHANGED <<quota, offSeq>>
  /\ IF Insufficient(d.bal[c], a)
     THEN procs' = Begin(p, [rec EXCEPT !.pc = "done", !.doc = d,
                                        !.result = "INSUFFICIENT_BALANCE"])
     ELSE procs' = Begin(p, [rec EXCEPT !.pc = "save",
                                        !.doc = [d EXCEPT !.bal[c] = @ - a]])
  /\ UNCHANGED <<users, txns, notifs, audits, faults, nextRef, ledger, mining>>

SendLoad(p) ==
  \E u \in Users, c \in ReqFiat, a \in Amounts, ref \in Refs : DebitLoad(p, "send", u, c, a, ref)

SendSave(p) ==
  /\ procs[p].op = "send" /\ procs[p].pc = "save"
  /\ SaveStep(p, "record")
  /\ UNCHANGED <<txns, notifs, audits, started, faults, nextRef, mining, quota, offSeq>>

SendRecord(p) ==
  LET r == procs[p] IN
  /\ r.op = "send" /\ r.pc = "record"
  /\ RecordStep(p, [NoTxn EXCEPT !.user = r.user, !.type = "send", !.currency = r.cur,
                                 !.amount = r.amount, !.reference = r.ref,
                                 !.status = "completed"],
                "transaction", "send_money", "OK")
  /\ UNCHANGED <<users, started, ledger, mining, quota, offSeq>>

Send(p) == SendLoad(p) \/ SendSave(p) \/ SendRecord(p)

(***************************************************************************)
(* POST /api/transactions/receive                                          *)
(***************************************************************************)
ReceiveLoad(p) ==
  \E u \in Users, c \in ReqFiat, a \in CreditAmounts, ref \in Refs :
    LET d == users[u]
        rec == Snapshot([IdleProc EXCEPT !.op = "receive", !.user = u, !.cur = c,
                                         !.amount = a, !.ref = ref, !.base = d], u)
    IN
    /\ CanStart(p, u)
    /\ started' = started + 1
    /\ UNCHANGED <<quota, offSeq>>
    /\ procs' = Begin(p, [rec EXCEPT !.pc = "save", !.doc = [d EXCEPT !.bal[c] = @ + a]])
    /\ UNCHANGED <<users, txns, notifs, audits, faults, nextRef, ledger, mining>>

ReceiveSave(p) ==
  /\ procs[p].op = "receive" /\ procs[p].pc = "save"
  /\ SaveStep(p, "record")
  /\ UNCHANGED <<txns, notifs, audits, started, faults, nextRef, mining, quota, offSeq>>

ReceiveRecord(p) ==
  LET r == procs[p] IN
  /\ r.op = "receive" /\ r.pc = "record"
  /\ RecordStep(p, [NoTxn EXCEPT !.user = r.user, !.type = "receive", !.currency = r.cur,
                                 !.amount = r.amount, !.reference = r.ref,
                                 !.status = "completed"],
                "transaction", "receive_money", "OK")
  /\ UNCHANGED <<users, started, ledger, mining, quota, offSeq>>

Receive(p) == ReceiveLoad(p) \/ ReceiveSave(p) \/ ReceiveRecord(p)

(***************************************************************************)
(* POST /api/transactions/transfer                                         *)
(***************************************************************************)
\* conversionRates[key] || 1, as <<numerator, denominator>>
ConversionRate(from, to) ==
  CASE from = "USD" /\ to = "EUR" -> <<92, 100>>
    [] from = "USD" /\ to = "GBP" -> <<79, 100>>
    [] from = "USD" /\ to = "CNY" -> <<724, 100>>
    [] from = "USD" /\ to = "NGN" -> <<1550, 1>>
    [] from = "EUR" /\ to = "USD" -> <<109, 100>>
    [] from = "GBP" /\ to = "USD" -> <<127, 100>>
    [] from = "CNY" /\ to = "USD" -> <<14, 100>>
    [] from = "NGN" /\ to = "USD" -> <<65, 100000>>
    [] OTHER -> <<1, 1>>

\* amount * rate, to the hundredth
Converted(a, rate) == (a * rate[1]) \div rate[2]

\* mutant of TransferLoad: the balance is checked before the currencies
TransferLoadBalanceFirst(p) ==
  \E u \in Users, from \in TransferFrom, to \in TransferTo, a \in Amounts :
    LET d == users[u]
        rate == ConversionRate(from, to)
        rec == Snapshot([IdleProc EXCEPT !.op = "transfer", !.user = u, !.cur = from,
                                         !.cur2 = to, !.amount = a, !.base = d], u)
    IN
    /\ CanStart(p, u)
    /\ started' = started + 1
    /\ UNCHANGED <<quota, offSeq>>
    /\ IF Insufficient(d.bal[from], a)
       THEN procs' = Begin(p, [rec EXCEPT !.pc = "done", !.doc = d,
                                          !.result = "INSUFFICIENT_BALANCE"])
       ELSE IF from = to
       THEN procs' = Begin(p, [rec EXCEPT !.pc = "done", !.doc = d, !.result = "SAME_CURRENCY"])
       ELSE procs' = Begin(p, [rec EXCEPT !.pc = "save",
                                 !.doc = [d EXCEPT !.bal[from] = @ - a,
                                                   !.bal[to] = @ + Converted(a, rate)]])
    /\ UNCHANGED <<users, txns, notifs, audits, faults, nextRef, ledger, mining>>

\* findById, the two checks, the conversion and the update of the copy
TransferStart(p, u, from, to, a) ==
  LET d == users[u]
      rate == ConversionRate(from, to)
      rec == Snapshot([IdleProc EXCEPT !.op = "transfer", !.user = u, !.cur = from,
                                       !.cur2 = to, !.amount = a, !.base = d], u)
  IN
  /\ CanStart(p, u)
  /\ started' = started + 1
  /\ UNCHANGED <<quota, offSeq>>
  /\ IF from = to
     THEN procs' = Begin(p, [rec EXCEPT !.pc = "done", !.doc = d, !.result = "SAME_CURRENCY"])
     ELSE IF Insufficient(d.bal[from], a)
     THEN procs' = Begin(p, [rec EXCEPT !.pc = "done", !.doc = d,
                                        !.result = "INSUFFICIENT_BALANCE"])
     ELSE procs' = Begin(p, [rec EXCEPT !.pc = "save",
                               !.doc = [d EXCEPT !.bal[from] = @ - a,
                                                 !.bal[to] = @ + Converted(a, rate)]])
  /\ UNCHANGED <<users, txns, notifs, audits, faults, nextRef, ledger, mining>>

TransferLoad(p) ==
  \E u \in Users, from \in TransferFrom, to \in TransferTo, a \in Amounts :
    TransferStart(p, u, from, to, a)

\* a Transfer between any two fiat currencies, of a request amount or of
\* what the account holds of the source currency above its opening balance
TransferFiat(p) ==
  \E u \in Users, from \in FiatSet, to \in FiatSet :
    \E a \in Amounts \cup {x \in {users[u].bal[from] - InitBalance} : x > 0} :
      TransferStart(p, u, from, to, a)

\* mutant of TransferSave: the save writes the debited currency alone
TransferSaveDebitOnly(p) ==
  LET r == procs[p] IN
  /\ r.op = "transfer" /\ r.pc = "save"
  /\ users' = [users EXCEPT ![r.user].bal[r.cur] = r.doc.bal[r.cur]]
  /\ ledger' = [ledger EXCEPT ![r.user][r.cur] = @ + (r.doc.bal[r.cur] - r.base.bal[r.cur])]
  /\ procs' = [procs EXCEPT ![p].pc = "record", ![p].base = r.doc]
  /\ UNCHANGED <<txns, notifs, audits, started, faults, nextRef, mining, quota, offSeq>>

TransferSave(p) ==
  /\ procs[p].op = "transfer" /\ procs[p].pc = "save"
  /\ SaveStep(p, "record")
  /\ UNCHANGED <<txns, notifs, audits, started, faults, nextRef, mining, quota, offSeq>>

\* the record carries fromCurrency/toCurrency and no currency
TransferRecord(p) ==
  LET r == procs[p]
      rate == ConversionRate(r.cur, r.cur2)
  IN
  /\ r.op = "transfer" /\ r.pc = "record"
  /\ RecordStep(p, [NoTxn EXCEPT !.user = r.user, !.type = "transfer",
                                 !.fromCurrency = r.cur, !.toCurrency = r.cur2,
                                 !.amount = r.amount,
                                 !.convertedAmount = Converted(r.amount, rate),
                                 !.exchangeRate = rate, !.status = "completed"],
                "transaction", "transfer", "OK")
  /\ UNCHANGED <<users, started, ledger, mining, quota, offSeq>>

Transfer(p) == TransferLoad(p) \/ TransferSave(p) \/ TransferRecord(p)

(***************************************************************************)
(* POST /api/transactions/international (no request schema)                *)
(***************************************************************************)
InternationalLoad(p) ==
  \E u \in Users, c \in ReqFiat, a \in IntlAmounts :
    DebitLoad(p, "international", u, c, a, "")

InternationalSave(p) ==
  /\ procs[p].op = "international" /\ procs[p].pc = "save"
  /\ SaveStep(p, "record")
  /\ UNCHANGED <<txns, notifs, audits, started, faults, nextRef, mining, quota, offSeq>>

InternationalRecord(p) ==
  LET r == procs[p] IN
  /\ r.op = "international" /\ r.pc = "record"
  /\ RecordStep(p, [NoTxn EXCEPT !.user = r.user, !.type = "send", !.currency = r.cur,
                                 !.amount = r.amount, !.status = "processing"],
                "transaction", "send_money", "OK")
  /\ UNCHANGED <<users, started, ledger, mining, quota, offSeq>>

International(p) == InternationalLoad(p) \/ InternationalSave(p) \/ InternationalRecord(p)

(***************************************************************************)
(* POST /api/crypto/send                                                   *)
(***************************************************************************)
CryptoSendLoad(p) ==
  \E u \in Users, c \in ReqCrypto, a \in Amounts :
    DebitLoad(p, "cryptoSend", u, c, a, "")

CryptoSendSave(p) ==
  /\ procs[p].op = "cryptoSend" /\ procs[p].pc = "save"
  /\ SaveStep(p, "record")
  /\ UNCHANGED <<txns, notifs, audits, started, faults, nextRef, mining, quota, offSeq>>

CryptoSendRecord(p) ==
  LET r == procs[p] IN
  /\ r.op = "cryptoSend" /\ r.pc = "record"
  /\ RecordStep(p, [NoTxn EXCEPT !.user = r.user, !.type = "crypto_send",
                                 !.currency = r.cur, !.amount = r.amount,
                                 !.status = "completed"],
                "transaction", "send_crypto", "OK")
  /\ UNCHANGED <<users, started, ledger, mining, quota, offSeq>>

CryptoSend(p) == CryptoSendLoad(p) \/ CryptoSendSave(p) \/ CryptoSendRecord(p)

(***************************************************************************)
(* POST /api/trading/withdraw-profit                                       *)
(***************************************************************************)
\* mutant of WithdrawLoad: the profit is credited and not zeroed
WithdrawLoadKeepingProfit(p) ==
  \E u \in Users :
    LET d == users[u]
        rec == Snapshot([IdleProc EXCEPT !.op = "withdraw", !.user = u, !.cur = "USD",
                                         !.amount = d.profit, !.base = d], u)
    IN
    /\ CanStart(p, u)
    /\ started' = started + 1
    /\ UNCHANGED <<quota, offSeq>>
    /\ IF d.profit <= 0
       THEN procs' = Begin(p, [rec EXCEPT !.pc = "done", !.doc = d, !.result = "NO_PROFIT"])
       ELSE procs' = Begin(p, [rec EXCEPT !.pc = "save",
                                 !.doc = [d EXCEPT !.bal["USD"] = @ + d.profit]])
    /\ UNCHANGED <<users, txns, notifs, audits, faults, nextRef, ledger, mining>>

WithdrawLoad(p) ==
  \E u \in Users :
    LET d == users[u]
        rec == Snapshot([IdleProc EXCEPT !.op = "withdraw", !.user = u, !.cur = "USD",
                                         !.amount = d.profit, !.base = d], u)
    IN
    /\ CanStart(p, u)
    /\ started' = started + 1
    /\ UNCHANGED <<quota, offSeq>>
    /\ IF d.profit <= 0
       THEN procs' = Begin(p, [rec EXCEPT !.pc = "done", !.doc = d, !.result = "NO_PROFIT"])
       ELSE procs' = Begin(p, [rec EXCEPT !.pc = "save",
                                 !.doc = [d EXCEPT !.bal["USD"] = @ + d.profit,
                                                   !.profit = 0]])
    /\ UNCHANGED <<users, txns, notifs, audits, faults, nextRef, ledger, mining>>

WithdrawSave(p) ==
  /\ procs[p].op = "withdraw" /\ procs[p].pc = "save"
  /\ SaveStep(p, "record")
  /\ UNCHANGED <<txns, notifs, audits, started, faults, nextRef, mining, quota, offSeq>>

WithdrawRecord(p) ==
  LET r == procs[p] IN
  /\ r.op = "withdraw" /\ r.pc = "record"
  /\ RecordStep(p, [NoTxn EXCEPT !.user = r.user, !.type = "trading", !.currency = "USD",
                                 !.amount = r.amount, !.status = "completed"],
                "trading", "trading_profit", "OK")
  /\ UNCHANGED <<users, started, ledger, mining, quota, offSeq>>

WithdrawProfit(p) == WithdrawLoad(p) \/ WithdrawSave(p) \/ WithdrawRecord(p)

(***************************************************************************)
(* PUT /api/balances/:currency (admin)                                     *)
(***************************************************************************)
\* typeof amount !== 'number' || amount < 0
AdminAmountRejected(a) == a < 0

AdminSetLoad(p) ==
  \E u \in Users, c \in ReqFiat, a \in AdminAmounts :
    LET d == users[u]
        rec == Snapshot([IdleProc EXCEPT !.op = "adminSet", !.user = u, !.cur = c,
                                         !.amount = a, !.base = d], u)
    IN
    /\ Slot(p)
    /\ started' = started + 1
    /\ UNCHANGED <<quota, offSeq>>
    /\ IF AdminAmountRejected(a)
       THEN procs' = Begin(p, [rec EXCEPT !.pc = "done", !.doc = d, !.result = "INVALID_AMOUNT"])
       ELSE procs' = Begin(p, [rec EXCEPT !.pc = "save", !.doc = [d EXCEPT !.bal[c] = a]])
    /\ UNCHANGED <<users, txns, notifs, audits, faults, nextRef, ledger, mining>>

\* the admin write is absolute: the history takes the written amount
AdminSetSave(p) ==
  LET r == procs[p] IN
  /\ r.op = "adminSet" /\ r.pc = "save"
  /\ IF UserValid(r.base, r.doc)
     THEN /\ users' = [users EXCEPT ![r.user] = SaveUser(@, r.base, r.doc)]
          /\ ledger' = [ledger EXCEPT ![r.user][r.cur] =
                          IF r.doc.bal[r.cur] # r.base.bal[r.cur] THEN r.amount ELSE @]
          /\ procs' = [procs EXCEPT ![p].pc = "done", ![p].result = "OK", ![p].base = r.doc]
     ELSE /\ Finish(p, "FAILED")
          /\ UNCHANGED <<users, ledger>>
  /\ UNCHANGED <<txns, notifs, audits, started, faults, nextRef, mining, quota, offSeq>>

AdminSetBalance(p) == AdminSetLoad(p) \/ AdminSetSave(p)

(***************************************************************************)
(* Mining model and POST /api/mining/toggle                                *)
(***************************************************************************)
NoTime == -1

\* crypto === 'BTC' ? 1 : 100 for the cryptos, 1000 for the currencies
TargetAmount(c) ==
  IF c \in FiatSet THEN Units(1000)
  ELSE IF c = "BTC" THEN Units(1) ELSE Units(100)

MiningType(c) == IF c \in FiatSet THEN "currency" ELSE "crypto"

\* mutant of NewJob: the status is left to a default of pending
NewJobPending(u, c, type, target, parent) ==
  [user |-> u, currency |-> c, type |-> type, status |-> "pending", progress |-> 0,
   targetAmount |-> target, minedAmount |-> 0, startTime |-> now, endTime |-> NoTime,
   parent |-> parent, credits |-> 0, addresses |-> <<>>, ver |-> 0]

\* Mining.createMiningOperation; parent and credits are history
NewJob(u, c, type, target, parent) ==
  [user |-> u, currency |-> c, type |-> type, status |-> "mining", progress |-> 0,
   targetAmount |-> target, minedAmount |-> 0, startTime |-> now, endTime |-> NoTime,
   parent |-> parent, credits |-> 0, addresses |-> <<>>, ver |-> 0]

JobIds == 1..Len(jobs)

\* Mining.getUserActiveMining
UserActiveMining(u) == {j \in JobIds : jobs[j].user = u /\ jobs[j].status = "mining"}

\* mutant of ToggleCurrencies: the last crypto is left out
ToggleCurrenciesShort == SubSeq(Currencies, 1, Len(Currencies) - 1)

\* the currencies, then the cryptos, in the order the handler creates jobs
ToggleCurrencies == Fiat \o Cryptos

ToggleOnCheck(p) ==
  \E u \in Users :
    LET n == Cardinality(UserActiveMining(u))
        rec == Snapshot([IdleProc EXCEPT !.op = "toggleMining", !.user = u,
                                         !.enabled = TRUE, !.count = n], u)
    IN
    /\ CanStart(p, u)
    /\ started' = started + 1
    /\ offSeq' = [offSeq EXCEPT ![u].mining = 0]
    /\ UNCHANGED quota
    /\ IF n = 0
       THEN procs' = Begin(p, [rec EXCEPT !.pc = "create", !.idx = 1])
       ELSE procs' = Begin(p, [rec EXCEPT !.pc = "done", !.result = "OK"])
    /\ audits' = audits
    /\ UNCHANGED <<users, txns, notifs, faults, nextRef, ledger, mining>>

\* one createMiningOperation per step; the audit entry follows the last one
ToggleOnCreate(p) ==
  LET r == procs[p]
      c == ToggleCurrencies[r.idx]
      last == r.idx = Len(ToggleCurrencies)
  IN
  /\ r.op = "toggleMining" /\ r.pc = "create"
  /\ jobs' = Append(jobs, NewJob(r.user, c, MiningType(c), TargetAmount(c), 0))
  /\ procs' = [procs EXCEPT ![p].made = Append(@, Len(jobs) + 1),
                            ![p].idx = @ + 1,
                            ![p].pc = IF last THEN "done" ELSE "create",
                            ![p].result = IF last THEN "OK" ELSE ""]
  /\ audits' = IF last THEN Append(audits, [user |-> r.user, action |-> "mining_start"])
               ELSE audits
  /\ offSeq' = [offSeq EXCEPT ![r.user].mining = 0]
  /\ UNCHANGED <<users, txns, notifs, started, faults, nextRef, ledger, now, quota>>

\* Mining.updateMany({user, status: 'mining'}, {status: 'cancelled', endTime})
ToggleOff(p) ==
  \E u \in Users :
    LET rec == Snapshot([IdleProc EXCEPT !.op = "toggleMining", !.user = u,
                                         !.enabled = FALSE, !.pc = "done",
                                         !.result = "OK"], u)
    IN
    /\ CanStart(p, u)
    /\ started' = started + 1
    /\ offSeq' = [offSeq EXCEPT ![u].mining = started + 1]
    /\ UNCHANGED quota
    /\ jobs' = [j \in JobIds |->
                  IF j \in UserActiveMining(u)
                  THEN [jobs[j] EXCEPT !.status = "cancelled", !.endTime = now]
                  ELSE jobs[j]]
    /\ audits' = Append(audits, [user |-> u, action |-> "mining_complete"])
    /\ procs' = Begin(p, rec)
    /\ UNCHANGED <<users, txns, notifs, faults, nextRef, ledger, now>>

ToggleMining(p) == ToggleOnCheck(p) \/ ToggleOnCreate(p) \/ ToggleOff(p)

(***************************************************************************)
(* miningService.processMiningCycles                                       *)
(***************************************************************************)
\* Mining.find({status: 'mining'}): the loaded documents, in insertion order
RECURSIVE ActiveMining(_)
ActiveMining(n) ==
  IF n = 0 THEN <<>>
  ELSE IF jobs[n].status = "mining"
       THEN Append(ActiveMining(n - 1), [id |-> n, progress |-> jobs[n].progress])
       ELSE ActiveMining(n - 1)

\* the for loop goes to its next element, or ends
NextJob(r, outcome, owner) ==
  [r EXCEPT !.idx = @ + 1,
            !.pc = IF r.idx >= Len(r.list) THEN "done" ELSE "load",
            !.result = IF r.idx >= Len(r.list) THEN "OK" ELSE "",
            !.prev = [job |-> r.list[r.idx].id, owner |-> owner, outcome |-> outcome]]

SweepFind(p) ==
  LET l == ActiveMining(Len(jobs))
      rec == [IdleProc EXCEPT !.op = "sweep", !.list = l, !.idx = 1,
                              !.pc = IF l = <<>> THEN "done" ELSE "load",
                              !.result = IF l = <<>> THEN "OK" ELSE ""]
  IN
  /\ Slot(p)
  /\ started' = started + 1
  /\ UNCHANGED <<quota, offSeq>>
  /\ procs' = Begin(p, rec)
  /\ UNCHANGED <<users, txns, notifs, audits, faults, nextRef, ledger, mining>>

\* mutant of SweepLoadUser: a job short of full progress is skipped as well
SweepLoadUserWhenFull(p) ==
  LET r == procs[p]
      j == jobs[r.list[r.idx].id]
      d == users[j.user]
  IN
  /\ r.op = "sweep" /\ r.pc = "load"
  /\ IF d.status # "active" \/ r.list[r.idx].progress < 100
     THEN procs' = [procs EXCEPT ![p] = NextJob(
                      Snapshot([r EXCEPT !.user = j.user, !.cur = j.currency], j.user),
                      "skipped", d.status)]
     ELSE procs' = [procs EXCEPT ![p] =
                      Snapshot([r EXCEPT !.user = j.user, !.cur = j.currency,
                                         !.amount = j.targetAmount, !.base = d,
                                         !.doc = [d EXCEPT !.bal[j.currency] = @ + j.targetAmount],
                                         !.pc = "save"], j.user)]
  /\ UNCHANGED <<users, txns, notifs, audits, started, faults, nextRef, ledger, mining, quota, offSeq>>

\* User.findById(mining.user); inactive owners are skipped
SweepLoadUser(p) ==
  LET r == procs[p]
      j == jobs[r.list[r.idx].id]
      d == users[j.user]
  IN
  /\ r.op = "sweep" /\ r.pc = "load"
  /\ IF d.status # "active"
     THEN procs' = [procs EXCEPT ![p] = NextJob(
                      Snapshot([r EXCEPT !.user = j.user, !.cur = j.currency], j.user),
                      "skipped", d.status)]
     ELSE procs' = [procs EXCEPT ![p] =
                      Snapshot([r EXCEPT !.user = j.user, !.cur = j.currency,
                                         !.amount = j.targetAmount, !.base = d,
                                         !.doc = [d EXCEPT !.bal[j.currency] = @ + j.targetAmount],
                                         !.pc = "save"], j.user)]
  /\ UNCHANGED <<users, txns, notifs, audits, started, faults, nextRef, ledger, mining, quota, offSeq>>

SweepSaveUser(p) ==
  LET r == procs[p] IN
  /\ r.op = "sweep" /\ r.pc = "save"
  /\ users' = [users EXCEPT ![r.user] = SaveUser(@, r.base, r.doc)]
  /\ ledger' = [ledger EXCEPT ![r.user] = LedgerAfter(@, r.base, r.doc)]
  /\ jobs' = [jobs EXCEPT ![r.list[r.idx].id].credits = @ + 1]
  /\ procs' = [procs EXCEPT ![p].pc = "txn", ![p].base = r.doc]
  /\ UNCHANGED <<txns, notifs, audits, started, faults, nextRef, now, quota, offSeq>>

\* mutant of SweepTxn: the reward record takes the place of the latest record
SweepTxnRewriting(p) ==
  LET r == procs[p]
      t == [NoTxn EXCEPT !.user = r.user, !.type = "mining", !.currency = r.cur,
                         !.amount = r.amount, !.status = "completed"]
  IN
  /\ r.op = "sweep" /\ r.pc = "txn"
  /\ \/ /\ TxnValid(t)
        /\ txns' = IF txns = <<>> THEN <<WithRef(t)>>
                   ELSE [txns EXCEPT ![Len(txns)] = WithRef(t)]
        /\ nextRef' = nextRef + 1
        /\ procs' = [procs EXCEPT ![p].pc = "mark"]
        /\ UNCHANGED faults
     \/ /\ faults < MaxFaults
        /\ faults' = faults + 1
        /\ procs' = [procs EXCEPT ![p] = NextJob(r, "failed", "active")]
        /\ UNCHANGED <<txns, nextRef>>
  /\ UNCHANGED <<users, notifs, audits, started, ledger, mining, quota, offSeq>>

\* Transaction.create of the mining reward; an exception ends this job's turn
SweepTxn(p) ==
  LET r == procs[p]
      t == [NoTxn EXCEPT !.user = r.user, !.type = "mining", !.currency = r.cur,
                         !.amount = r.amount, !.status = "completed"]
  IN
  /\ r.op = "sweep" /\ r.pc = "txn"
  /\ \/ /\ TxnValid(t)
        /\ txns' = Append(txns, WithRef(t))
        /\ nextRef' = nextRef + 1
        /\ procs' = [procs EXCEPT ![p].pc = "mark"]
        /\ UNCHANGED faults
     \/ /\ faults < MaxFaults
        /\ faults' = faults + 1
        /\ procs' = [procs EXCEPT ![p] = NextJob(r, "failed", "active")]
        /\ UNCHANGED <<txns, nextRef>>
  /\ UNCHANGED <<users, notifs, audits, started, ledger, mining, quota, offSeq>>

\* mining.save(): the paths the sweep assigned on its loaded copy
SweepMark(p) ==
  LET r == procs[p]
      id == r.list[r.idx].id
  IN
  /\ r.op = "sweep" /\ r.pc = "mark"
  /\ jobs' = [jobs EXCEPT ![id].status = "completed",
                          ![id].minedAmount = r.amount,
                          ![id].progress = IF r.list[r.idx].progress # 100 THEN 100 ELSE @,
                          ![id].endTime = now]
  /\ procs' = [procs EXCEPT ![p].pc = "spawn"]
  /\ UNCHANGED <<users, txns, notifs, audits, started, faults, nextRef, ledger, now, quota, offSeq>>

\* Notification.create; AuditLog.createLog; Mining.createMiningOperation
SweepSpawn(p) ==
  LET r == procs[p]
      id == r.list[r.idx].id
      j == jobs[id]
  IN
  /\ r.op = "sweep" /\ r.pc = "spawn"
  /\ notifs' = Append(notifs, [user |-> r.user, type |-> "mining"])
  /\ audits' = Append(audits, [user |-> r.user, action |-> "mining_complete"])
  /\ jobs' = Append(jobs, NewJob(r.user, j.currency, j.type, j.targetAmount, id))
  /\ procs' = [procs EXCEPT ![p] = NextJob(r, "completed", "active")]
  /\ UNCHANGED <<users, txns, started, faults, nextRef, ledger, now, quota, offSeq>>

\* mutant of SweepFail: the exception ends the sweep
SweepFailAborting(p) ==
  LET r == procs[p] IN
  /\ r.op = "sweep" /\ r.pc \in {"load", "save", "mark", "spawn"}
  /\ faults < MaxFaults
  /\ faults' = faults + 1
  /\ procs' = [procs EXCEPT ![p].pc = "done", ![p].result = "FAILED"]
  /\ UNCHANGED <<users, txns, notifs, audits, started, nextRef, ledger, mining, quota, offSeq>>

\* catch (error): a store call of this job's turn throws and the loop goes on.
\* In the last stage the calls are Notification.create, AuditLog.createLog
\* and createMiningOperation: `sinks` of the first two succeeded.
SweepFail(p) ==
  LET r == procs[p] IN
  /\ r.op = "sweep" /\ r.pc \in {"load", "save", "mark", "spawn"}
  /\ faults < MaxFaults
  /\ faults' = faults + 1
  /\ \E sinks \in 0..2 :
       /\ r.pc # "spawn" => sinks = 0
       /\ notifs' = IF sinks >= 1 THEN Append(notifs, [user |-> r.user, type |-> "mining"])
                    ELSE notifs
       /\ audits' = IF sinks >= 2
                    THEN Append(audits, [user |-> r.user, action |-> "mining_complete"])
                    ELSE audits
       /\ procs' = [procs EXCEPT ![p] =
                      NextJob(r, IF r.pc = "spawn" /\ sinks < 2 THEN "sink_failed" ELSE "failed",
                              IF r.pc = "load" THEN "none" ELSE "active")]
  /\ UNCHANGED <<users, txns, started, nextRef, ledger, mining, quota, offSeq>>

Sweep(p) ==
  SweepFind(p) \/ SweepLoadUser(p) \/ SweepSaveUser(p) \/ SweepTxn(p) \/ SweepMark(p)
    \/ SweepSpawn(p) \/ SweepFail(p)

(***************************************************************************)
(* miningService.updateMiningProgress and the clock                        *)
(***************************************************************************)
\* totalDuration, in minutes
CycleMinutes == 60

\* mutant of ProgressAt: the value is not capped at 100
ProgressAtUncapped(startTime) ==
  LET elapsed == now - startTime
  IN (elapsed * 100 * 2 + CycleMinutes) \div (2 * CycleMinutes)

\* Math.round(Math.min((elapsed / totalDuration) * 100, 100))
ProgressAt(startTime) ==
  LET elapsed == now - startTime
      exact == (elapsed * 100 * 2 + CycleMinutes) \div (2 * CycleMinutes)
  IN IF exact > 100 THEN 100 ELSE exact

\* Mining.find({status: 'mining'})
ProgressFind(p) ==
  LET l == ActiveMining(Len(jobs))
      rec == [IdleProc EXCEPT !.op = "progress", !.list = l, !.idx = 1,
                              !.pc = IF l = <<>> THEN "done" ELSE "tick",
                              !.result = IF l = <<>> THEN "OK" ELSE ""]
  IN
  /\ Slot(p)
  /\ started' = started + 1
  /\ UNCHANGED <<quota, offSeq>>
  /\ procs' = Begin(p, rec)
  /\ UNCHANGED <<users, txns, notifs, audits, faults, nextRef, ledger, mining>>

\* if (progress !== mining.progress) { mining.progress = ...; await mining.save() }
ProgressSave(p) ==
  LET r == procs[p]
      id == r.list[r.idx].id
      new == ProgressAt(jobs[id].startTime)
      last == r.idx >= Len(r.list)
  IN
  /\ r.op = "progress" /\ r.pc = "tick"
  /\ jobs' = IF new # r.list[r.idx].progress
             THEN [jobs EXCEPT ![id].progress = new]
             ELSE jobs
  /\ procs' = [procs EXCEPT ![p].idx = @ + 1,
                            ![p].pc = IF last THEN "done" ELSE "tick",
                            ![p].result = IF last THEN "OK" ELSE ""]
  /\ UNCHANGED <<users, txns, notifs, audits, started, faults, nextRef, ledger, now, quota, offSeq>>

UpdateMiningProgress(p) == ProgressFind(p) \/ ProgressSave(p)

\* the clock advances
Tick ==
  /\ now < MaxNow
  /\ now' = now + TickMinutes
  /\ UNCHANGED <<users, txns, notifs, audits, procs, started, faults, nextRef, ledger, jobs,
                 quota, offSeq>>

(***************************************************************************)
(* miningService.generateMiningAddresses                                   *)
(***************************************************************************)
\* if (activeMining.addresses.length > 100)
RingCapacity == 100

\* {address, currency, generatedAt}; the serial stands for the 40 random
\* characters of the address
NewAddress(r, c) == [serial |-> 1000 * r.seq + r.idx, currency |-> c, generatedAt |-> now]

\* Mining.findOne({currency, status: 'mining'}): the first match, 0 for null
FindOneMining(c) ==
  LET S == {j \in JobIds : jobs[j].currency = c /\ jobs[j].status = "mining"}
  IN IF S = {} THEN 0 ELSE CHOOSE j \in S : \A k \in S : j <= k

\* for (let i = 0; i < 10; i++): the next iteration, or the end of the run
NextAddress(r) ==
  [r EXCEPT !.idx = @ + 1,
            !.pc = IF r.idx >= AddressBatch THEN "done" ELSE "find",
            !.result = IF r.idx >= AddressBatch THEN "OK" ELSE ""]

\* the setInterval callback fires
AddressesBegin(p) ==
  /\ Slot(p)
  /\ started' = started + 1
  /\ procs' = Begin(p, [IdleProc EXCEPT !.op = "addresses", !.pc = "find", !.idx = 1,
                                        !.snapTx = Len(txns)])
  /\ UNCHANGED <<users, txns, notifs, audits, faults, nextRef, ledger, mining, quota, offSeq>>

\* the random currency and await Mining.findOne
AddressesFind(p) ==
  LET r == procs[p] IN
  /\ r.op = "addresses" /\ r.pc = "find"
  /\ \E c \in CryptoSet :
       LET id == FindOneMining(c) IN
       procs' = IF id = 0
                THEN [procs EXCEPT ![p] = NextAddress(r)]
                ELSE [procs EXCEPT ![p].pc = "save", ![p].cur = c,
                                   ![p].list = <<[id |-> id, doc |-> jobs[id]]>>]
  /\ UNCHANGED <<users, txns, notifs, audits, started, faults, nextRef, ledger, mining,
                 quota, offSeq>>

\* mutant of AddressesSave: the save writes the whole loaded document
AddressesSaveWhole(p) ==
  LET r == procs[p]
      id == r.list[1].id
      d == r.list[1].doc
      pushed == Append(d.addresses, NewAddress(r, r.cur))
  IN
  /\ r.op = "addresses" /\ r.pc = "save"
  /\ IF Len(pushed) > RingCapacity
     THEN IF jobs[id].ver = d.ver
          THEN /\ jobs' = [jobs EXCEPT ![id] = [d EXCEPT !.addresses = Tail(pushed),
                                                         !.ver = @ + 1]]
               /\ procs' = [procs EXCEPT ![p] = NextAddress(r)]
          ELSE /\ Finish(p, "FAILED")
               /\ UNCHANGED jobs
     ELSE /\ jobs' = [jobs EXCEPT ![id] = [d EXCEPT !.addresses = Append(jobs[id].addresses,
                                                                         NewAddress(r, r.cur)),
                                                    !.ver = jobs[id].ver + 1]]
          /\ procs' = [procs EXCEPT ![p] = NextAddress(r)]
  /\ UNCHANGED <<users, txns, notifs, audits, started, faults, nextRef, ledger, now,
                 quota, offSeq>>

\* addresses.push, addresses.shift when over 100, await activeMining.save():
\* a push alone is sent as $push on the stored array; a push and a shift are
\* sent as $set of the whole array, guarded by the version the copy was
\* loaded with (VersionError ends the run)
AddressesSave(p) ==
  LET r == procs[p]
      id == r.list[1].id
      d == r.list[1].doc
      pushed == Append(d.addresses, NewAddress(r, r.cur))
  IN
  /\ r.op = "addresses" /\ r.pc = "save"
  /\ IF Len(pushed) > RingCapacity
     THEN IF jobs[id].ver = d.ver
          THEN /\ jobs' = [jobs EXCEPT ![id].addresses = Tail(pushed), ![id].ver = @ + 1]
               /\ procs' = [procs EXCEPT ![p] = NextAddress(r)]
          ELSE /\ Finish(p, "FAILED")
               /\ UNCHANGED jobs
     ELSE /\ jobs' = [jobs EXCEPT ![id].addresses = Append(@, NewAddress(r, r.cur)),
                                  ![id].ver = @ + 1]
          /\ procs' = [procs EXCEPT ![p] = NextAddress(r)]
  /\ UNCHANGED <<users, txns, notifs, audits, started, faults, nextRef, ledger, now,
                 quota, offSeq>>

GenerateMiningAddresses(p) == AddressesBegin(p) \/ AddressesFind(p) \/ AddressesSave(p)

(***************************************************************************)
(* PUT /api/admin/users/:userId/status                                     *)
(***************************************************************************)
\* User.findByIdAndUpdate(userId, {status}); AuditLog.createLog
AdminSetStatus(p) ==
  \E u \in Users, st \in {"active", "suspended", "banned"} :
    /\ Slot(p)
    /\ started' = started + 1
    /\ UNCHANGED <<quota, offSeq>>
    /\ users' = [users EXCEPT ![u].status = st]
    /\ audits' = Append(audits, [user |-> "admin", action |-> "admin_action"])
    /\ procs' = Begin(p, [IdleProc EXCEPT !.op = "adminStatus", !.user = u,
                                          !.pc = "done", !.result = "OK"])
    /\ UNCHANGED <<txns, notifs, faults, nextRef, ledger, mining>>

(***************************************************************************)
(* POST /api/trading/toggle                                                *)
(***************************************************************************)
\* user.trading.robotActive = enabled; await user.save()
ToggleTradingSet(p) ==
  \E u \in Users, en \in BOOLEAN :
    LET d == users[u]
        doc1 == [d EXCEPT !.robot = en]
        rec == Snapshot([IdleProc EXCEPT !.op = "toggleTrading", !.user = u,
                                         !.enabled = en, !.base = doc1, !.doc = doc1], u)
    IN
    /\ CanStart(p, u)
    /\ started' = started + 1
    /\ offSeq' = [offSeq EXCEPT ![u].trading = IF en THEN 0 ELSE started + 1]
    /\ UNCHANGED quota
    /\ users' = [users EXCEPT ![u] = SaveUser(@, d, doc1)]
    /\ IF en /\ doc1.capital = 0
       THEN procs' = Begin(p, [rec EXCEPT !.pc = "seed",
                                          !.doc = [doc1 EXCEPT !.capital = SeedCapital]])
       ELSE /\ procs' = Begin(p, [rec EXCEPT !.pc = "done", !.result = "OK"])
    /\ audits' = IF en /\ doc1.capital = 0 THEN audits
                 ELSE Append(audits, [user |-> u,
                        action |-> IF en THEN "trading_activate" ELSE "trading_deactivate"])
    /\ UNCHANGED <<txns, notifs, faults, nextRef, ledger, mining>>

\* user.trading.capital = 10000; await user.save(); AuditLog.createLog
ToggleTradingSeed(p) ==
  LET r == procs[p] IN
  /\ r.op = "toggleTrading" /\ r.pc = "seed"
  /\ users' = [users EXCEPT ![r.user] = SaveUser(@, r.base, r.doc)]
  /\ audits' = Append(audits, [user |-> r.user, action |-> "trading_activate"])
  /\ procs' = [procs EXCEPT ![p].pc = "done", ![p].result = "OK", ![p].base = r.doc]
  /\ offSeq' = [offSeq EXCEPT ![r.user].trading = 0]
  /\ UNCHANGED <<txns, notifs, started, faults, nextRef, ledger, mining, quota>>

ToggleTrading(p) == ToggleTradingSet(p) \/ ToggleTradingSeed(p)

(***************************************************************************)
(* tradingService.executeTradingRobots                                     *)
(***************************************************************************)
\* Math.random(), in thousandths
RandomDraws == {0, 999}

\* capital * (0.01 + random * 0.05)
TradeAmount(capital, r1) == (capital * (200 + r1)) \div 20000

\* tradeAmount * (0.02 + random * 0.08)
TradeProfit(tradeAmount, r2) == (tradeAmount * (250 + r2)) \div 12500

\* tradeAmount * 0.02
TradeLoss(tradeAmount) == tradeAmount \div 50

Max(a, b) == IF a >= b THEN a ELSE b

\* mutant of TradingUsers: the status is not part of the query
TradingUsersAnyStatus == {u \in Users : users[u].robot}

\* User.find({'trading.robotActive': true, status: 'active'}): the loaded documents
TradingUsers == {u \in Users : users[u].robot /\ users[u].status = "active"}

RECURSIVE SetToSeq(_)
SetToSeq(S) ==
  IF S = {} THEN <<>>
  ELSE LET x == CHOOSE y \in S : TRUE IN <<x>> \o SetToSeq(S \ {x})

\* the for loop over the loaded users goes to its next element, or ends
NextUser(r) ==
  [r EXCEPT !.idx = @ + 1,
            !.pc = IF r.idx >= Len(r.list) THEN "done" ELSE "trade",
            !.result = IF r.idx >= Len(r.list) THEN "OK" ELSE ""]

TradingFind(p) ==
  LET ids == SetToSeq(TradingUsers)
      l == [i \in 1..Len(ids) |-> [id |-> ids[i], doc |-> users[ids[i]]]]
      rec == [IdleProc EXCEPT !.op = "trading", !.list = l, !.idx = 1,
                              !.snapTx = Len(txns), !.snapAudit = Len(audits),
                              !.pc = IF l = <<>> THEN "done" ELSE "trade",
                              !.result = IF l = <<>> THEN "OK" ELSE ""]
  IN
  /\ Slot(p)
  /\ started' = started + 1
  /\ UNCHANGED <<quota, offSeq>>
  /\ procs' = Begin(p, rec)
  /\ UNCHANGED <<users, txns, notifs, audits, faults, nextRef, ledger, mining>>

\* the draw, the update of the loaded copy and await user.save()
TradingTrade(p) ==
  LET r == procs[p]
      u == r.list[r.idx].id
      d == r.list[r.idx].doc
  IN
  /\ r.op = "trading" /\ r.pc = "trade"
  /\ IF d.capital <= 0
     THEN /\ procs' = [procs EXCEPT ![p] = NextUser(r)]
          /\ UNCHANGED users
     ELSE \E isProfitable \in BOOLEAN, r1 \in RandomDraws, r2 \in RandomDraws :
            LET ta == TradeAmount(d.capital, r1)
                profit == IF isProfitable THEN TradeProfit(ta, r2) ELSE -TradeLoss(ta)
                doc1 == IF isProfitable
                        THEN [d EXCEPT !.profit = @ + profit]
                        ELSE [d EXCEPT !.capital = Max(0, @ - (-profit))]
            IN
            /\ ~isProfitable => r2 = 0
            /\ IF UserValid(d, doc1)
               THEN /\ users' = [users EXCEPT ![u] = SaveUser(@, d, doc1)]
                    /\ procs' = [procs EXCEPT ![p].pc = "record", ![p].user = u,
                                              ![p].base = doc1, ![p].doc = doc1,
                                              ![p].amount = IF profit < 0 THEN -profit ELSE profit,
                                              ![p].count = ta,
                                              ![p].enabled = isProfitable]
               ELSE /\ procs' = [procs EXCEPT ![p] = NextUser(r)]
                    /\ UNCHANGED users
  /\ UNCHANGED <<txns, notifs, audits, started, faults, nextRef, ledger, mining, quota, offSeq>>

\* profit > 50 raises a notification
NotifyThreshold == Units(50)

\* Transaction.create; AuditLog.createLog; Notification.create for a significant profit
TradingRecord(p) ==
  LET r == procs[p]
      t == [NoTxn EXCEPT !.user = r.user, !.type = "trading", !.currency = "USD",
                         !.amount = r.amount, !.status = "completed"]
  IN
  /\ r.op = "trading" /\ r.pc = "record"
  /\ \/ /\ TxnValid(t)
        /\ txns' = Append(txns, WithRef(t))
        /\ nextRef' = nextRef + 1
        /\ audits' = Append(audits, [user |-> r.user, action |-> "trading_profit"])
        /\ notifs' = IF r.enabled /\ r.amount > NotifyThreshold
                     THEN Append(notifs, [user |-> r.user, type |-> "trading"])
                     ELSE notifs
        /\ UNCHANGED faults
     \/ /\ faults < MaxFaults
        /\ faults' = faults + 1
        /\ UNCHANGED <<txns, nextRef, audits, notifs>>
  /\ procs' = [procs EXCEPT ![p] = NextUser(r)]
  /\ UNCHANGED <<users, started, ledger, mining, quota, offSeq>>

\* catch (error): user.save() throws, or AuditLog.createLog /
\* Notification.create throws after the Transaction; the loop goes on
TradingFail(p) ==
  LET r == procs[p]
      t == [NoTxn EXCEPT !.user = r.user, !.type = "trading", !.currency = "USD",
                         !.amount = r.amount, !.status = "completed"]
  IN
  /\ r.op = "trading" /\ r.pc \in {"trade", "record"}
  /\ faults < MaxFaults
  /\ faults' = faults + 1
  /\ IF r.pc = "trade"
     THEN /\ r.list[r.idx].doc.capital > 0
          /\ UNCHANGED <<txns, nextRef>>
     ELSE /\ TxnValid(t)
          /\ txns' = Append(txns, WithRef(t))
          /\ nextRef' = nextRef + 1
  /\ procs' = [procs EXCEPT ![p] = NextUser(r)]
  /\ UNCHANGED <<users, notifs, audits, started, ledger, mining, quota, offSeq>>

TradingCycle(p) == TradingFind(p) \/ TradingTrade(p) \/ TradingRecord(p) \/ TradingFail(p)

(***************************************************************************)
(* Initial states and specifications.                                      *)
(***************************************************************************)
InitUser ==
  [bal |-> [c \in CurrencySet |-> IF c \in {"USD", "BTC"} THEN InitBalance ELSE 0],
   capital |-> 0, profit |-> InitProfit, robot |-> FALSE, status |-> "active"]

\* the jobs left by a toggle-on that a store error ended after its second job
MiningStarted ==
  [i \in 1..2 |->
     [user |-> "u1", currency |-> ToggleCurrencies[i], type |-> MiningType(ToggleCurrencies[i]),
      status |-> "mining", progress |-> 0, targetAmount |-> TargetAmount(ToggleCurrencies[i]),
      minedAmount |-> 0, startTime |-> 0, endTime |-> NoTime, parent |-> 0, credits |-> 0,
      addresses |-> <<>>, ver |-> 0]]

Init ==
  /\ users = [u \in {"u1"} |-> InitUser]
  /\ txns = <<>>
  /\ notifs = <<>>
  /\ audits = <<>>
  /\ procs = [p \in Workers |-> IdleProc]
  /\ started = 0
  /\ faults = 0
  /\ nextRef = 0
  /\ ledger = [u \in Users |-> users[u].bal]
  /\ jobs \in {<<>>, MiningStarted}
  /\ now = 0
  /\ quota = MaxOps
  /\ offSeq = [u \in Users |-> NeverOff]

Next ==
  \E p \in Workers :
    \/ Send(p)
    \/ Receive(p)
    \/ Transfer(p)
    \/ International(p)
    \/ CryptoSend(p)
    \/ WithdrawProfit(p)
    \/ AdminSetBalance(p)
    \/ ToggleMining(p)
    \/ Sweep(p)
    \/ AdminSetStatus(p)
    \/ ToggleTrading(p)
    \/ TradingCycle(p)

Spec == Init /\ [][Next]_vars

\* An account whose robot trades on a seeded capital
RobotUser == [InitUser EXCEPT !.robot = TRUE, !.capital = SeedCapital]

\* The cron-driven services on two accounts: the first mines, both trade.
InitCycles ==
  /\ users = [u \in {"u1", "u2"} |-> RobotUser]
  /\ txns = <<>>
  /\ notifs = <<>>
  /\ audits = <<>>
  /\ procs = [p \in Workers |-> IdleProc]
  /\ started = 0
  /\ faults = 0
  /\ nextRef = 0
  /\ ledger = [u \in Users |-> users[u].bal]
  /\ jobs = MiningStarted
  /\ now = 0
  /\ quota = MaxOps
  /\ offSeq = [u \in Users |-> NeverOff]

\* The sweep against the progress updater, the clock and the account status
NextCycles ==
  \/ Tick
  \/ \E p \in Workers :
       \/ Sweep(p)
       \/ UpdateMiningProgress(p)
       \/ AdminSetStatus(p)

SpecCycles == InitCycles /\ [][NextCycles]_vars

\* The sweep and the trading cycle with their store failures
NextFailures ==
  \E p \in Workers :
    \/ Sweep(p)
    \/ TradingCycle(p)

SpecFailures == InitCycles /\ [][NextFailures]_vars

\* The toggles against the sweeps and the trading cycles, one invocation more
InitToggles ==
  /\ users = [u \in {"u1"} |-> InitUser]
  /\ txns = <<>>
  /\ notifs = <<>>
  /\ audits = <<>>
  /\ procs = [p \in Workers |-> IdleProc]
  /\ started = 0
  /\ faults = 0
  /\ nextRef = 0
  /\ ledger = [u \in Users |-> users[u].bal]
  /\ jobs = MiningStarted
  /\ now = 0
  /\ quota = MaxCycleOps
  /\ offSeq = [u \in Users |-> NeverOff]

NextToggles ==
  \E p \in Workers :
    \/ Sweep(p)
    \/ ToggleMining(p)
    \/ ToggleTrading(p)
    \/ TradingCycle(p)

SpecToggles == InitToggles /\ [][NextToggles]_vars

\* The three timers of the mining service on one account.  Its toggle-on was
\* overtaken by a toggle-off after the fifth job (cancelled with updateMany)
\* and ended by a store error after the sixth; the ring of the BTC job is
\* one entry short of its capacity.
MiningAddressed ==
  [i \in 1..6 |->
     [user |-> "u1", currency |-> ToggleCurrencies[i], type |-> MiningType(ToggleCurrencies[i]),
      status |-> IF ToggleCurrencies[i] \in CryptoSet THEN "mining" ELSE "cancelled",
      progress |-> 0, targetAmount |-> TargetAmount(ToggleCurrencies[i]),
      minedAmount |-> 0, startTime |-> 0, endTime |-> NoTime, parent |-> 0, credits |-> 0,
      addresses |-> IF ToggleCurrencies[i] \in CryptoSet
                    THEN [k \in 1..(RingCapacity - 1) |->
                            [serial |-> k, currency |-> ToggleCurrencies[i], generatedAt |-> 0]]
                    ELSE <<>>,
      ver |-> IF ToggleCurrencies[i] \in CryptoSet THEN RingCapacity - 1 ELSE 0]]

InitAddresses ==
  /\ users = [u \in {"u1"} |-> RobotUser]
  /\ txns = <<>>
  /\ notifs = <<>>
  /\ audits = <<>>
  /\ procs = [p \in Workers |-> IdleProc]
  /\ started = 0
  /\ faults = 0
  /\ nextRef = 0
  /\ ledger = [u \in Users |-> users[u].bal]
  /\ jobs = MiningAddressed
  /\ now = 0
  /\ quota = MaxOps
  /\ offSeq = [u \in Users |-> NeverOff]

NextAddresses ==
  \/ Tick
  \/ \E p \in Workers :
       \/ GenerateMiningAddresses(p)
       \/ Sweep(p)
       \/ UpdateMiningProgress(p)

SpecAddresses == InitAddresses /\ [][NextAddresses]_vars

\* Requests and cycles on one account that mines two currencies and trades.
InitDisjoint ==
  /\ users = [u \in {"u1"} |-> RobotUser]
  /\ txns = <<>>
  /\ notifs = <<>>
  /\ audits = <<>>
  /\ procs = [p \in Workers |-> IdleProc]
  /\ started = 0
  /\ faults = 0
  /\ nextRef = 0
  /\ ledger = [u \in Users |-> users[u].bal]
  /\ jobs = MiningStarted
  /\ now = 0
  /\ quota = MaxOps
  /\ offSeq = [u \in Users |-> NeverOff]

NextDisjoint ==
  \E p \in Workers :
    \/ Send(p)
    \/ Receive(p)
    \/ CryptoSend(p)
    \/ WithdrawProfit(p)
    \/ Sweep(p)
    \/ TradingCycle(p)

SpecDisjoint == InitDisjoint /\ [][NextDisjoint]_vars

\* The sweep and the trading cycle against the administrator's status changes
NextStatus ==
  \E p \in Workers :
    \/ AdminSetStatus(p)
    \/ Sweep(p)
    \/ TradingCycle(p)

SpecStatus == InitCycles /\ [][NextStatus]_vars

\* Transfers there and back on an account that holds every fiat currency
FiatUser ==
  [InitUser EXCEPT !.bal = [c \in CurrencySet |-> IF c \in FiatSet THEN InitBalance ELSE 0]]

InitRoundTrip ==
  /\ users = [u \in {"u1"} |-> FiatUser]
  /\ txns = <<>>
  /\ notifs = <<>>
  /\ audits = <<>>
  /\ procs = [p \in Workers |-> IdleProc]
  /\ started = 0
  /\ faults = 0
  /\ nextRef = 0
  /\ ledger = [u \in Users |-> users[u].bal]
  /\ jobs = <<>>
  /\ now = 0
  /\ quota = MaxOps
  /\ offSeq = [u \in Users |-> NeverOff]

NextRoundTrip ==
  \E p \in Workers :
    \/ TransferFiat(p)
    \/ TransferSave(p)
    \/ TransferRecord(p)

SpecRoundTrip == InitRoundTrip /\ [][NextRoundTrip]_vars

\* The hourly sweep alone on a mining account that is never toggled off: the
\* cron starts sweeps as long as the behaviour allows, and every started sweep
\* runs on.
InitPerpetual ==
  /\ users = [u \in {"u1"} |-> InitUser]
  /\ txns = <<>>
  /\ notifs = <<>>
  /\ audits = <<>>
  /\ procs = [p \in Workers |-> IdleProc]
  /\ started = 0
  /\ faults = 0
  /\ nextRef = 0
  /\ ledger = [u \in Users |-> users[u].bal]
  /\ jobs = MiningStarted
  /\ now = 0
  /\ quota = MaxOps
  /\ offSeq = [u \in Users |-> NeverOff]

NextPerpetual == \E p \in Workers : Sweep(p)

SpecPerpetual == InitPerpetual /\ [][NextPerpetual]_vars /\ WF_vars(NextPerpetual)

TypeOK ==
  /\ started \in 0..quota
  /\ faults \in 0..MaxFaults

(***************************************************************************)
(* Properties.                                                             *)
(***************************************************************************)
Done(p) == procs[p].pc = "done"

\* p ran with no other invocation in flight, and none has started since
Alone(p) == procs[p].solo /\ procs[p].seq = started

\* p starts in this step
Starts(p) == Free(p) /\ started' = started + 1 /\ procs'[p].seq = started'

DebitOps == {"send", "international", "cryptoSend", "transfer"}
EngineOps == {"send", "receive", "transfer", "international", "cryptoSend"}

Successors(j) == {k \in JobIds : jobs[k].parent = j}

MiningJobsOf(u, c) ==
  {j \in JobIds : jobs[j].user = u /\ jobs[j].currency = c /\ jobs[j].status = "mining"}

\* C1: every stored currency balance, and every balance a handler has
\* loaded, is >= 0 in every reachable state.
C1_NonNegativeBalances ==
  /\ \A u \in Users, c \in CurrencySet : users[u].bal[c] >= 0
  /\ \A p \in Workers, c \in CurrencySet : procs[p].base.bal[c] >= 0

\* two debits that together overdraw have both been saved, and the stored
\* balance is not negative
C1_Witness ==
  \E u \in Users : ledger[u]["USD"] < 0 /\ users[u].bal["USD"] >= 0

\* C2: two Sends that ran concurrently on the same account and currency,
\* from the same starting balance, never both succeed when their amounts
\* together exceed that balance.
C2_DebitAtomicity ==
  \A p, q \in Workers :
    ( /\ p # q
      /\ procs[p].op = "send" /\ procs[q].op = "send"
      /\ Done(p) /\ Done(q)
      /\ procs[p].result = "OK" /\ procs[q].result = "OK"
      /\ ~procs[p].solo /\ ~procs[q].solo
      /\ procs[p].user = procs[q].user /\ procs[p].cur = procs[q].cur
      /\ procs[p].snap.bal[procs[p].cur] = procs[q].snap.bal[procs[q].cur] )
    => procs[p].amount + procs[q].amount <= procs[p].snap.bal[procs[p].cur]

BalanceOps ==
  {"send", "receive", "transfer", "international", "cryptoSend", "withdraw", "sweep"}

\* C3: once the balance-affecting operations that ran (Send, Receive,
\* Transfer, International transfer, Crypto send, Withdraw-profit, completion
\* sweep) have all finished, every stored balance equals the initial balance
\* plus the deltas of all the saves they committed.
C3_NoLostUpdate ==
  (\A p \in Workers : Free(p) /\ procs[p].op \in BalanceOps \cup {"idle"})
    => \A u \in Users, c \in CurrencySet : users[u].bal[c] = ledger[u][c]

\* C4: with no store failure, no job is credited more than once and no job
\* gets more than one successor, however sweeps overlap.
C4_MiningExactlyOnce ==
  faults = 0 =>
    \A j \in JobIds : jobs[j].credits <= 1 /\ Cardinality(Successors(j)) <= 1

\* C5: for every (account, currency) at most one job is in mining status.
C5_OneMiningJobPerPair ==
  \A u \in Users, c \in CurrencySet : Cardinality(MiningJobsOf(u, c)) <= 1

\* C6: when a Transfer Engine operation has ended, it has persisted a
\* balance change if and only if it has appended its Transaction (stated
\* here for the runs with no store failure: a record the schema rejects).
C6_LedgerAndLogAtomic ==
  \A p \in Workers :
    (Done(p) /\ procs[p].op \in EngineOps /\ faults = 0)
      => ((procs[p].base.bal # procs[p].snap.bal) <=> (procs[p].txnId # 0))

\* the step in which p starts a debit of more than the balance it reads
InsufficientStart(p, ops) ==
  /\ Starts(p)
  /\ procs'[p].op \in ops
  /\ procs'[p].snap.bal[procs'[p].cur] < procs'[p].amount

RejectedUntouched(p) ==
  /\ procs'[p].pc = "done"
  /\ procs'[p].result = "INSUFFICIENT_BALANCE"
  /\ users' = users /\ txns' = txns /\ notifs' = notifs /\ audits' = audits

\* C7 as claimed: Send, International transfer, Crypto send and Transfer on
\* a balance below the amount fail with InsufficientBalance and write nothing.
C7_InsufficientRejected ==
  [][\A p \in Workers : InsufficientStart(p, DebitOps) => RejectedUntouched(p)]_vars

\* C7 as amended: the same for Send, International transfer, Crypto send and
\* a Transfer between two different currencies.
C7_InsufficientRejectedDistinct ==
  [][\A p \in Workers :
       (InsufficientStart(p, DebitOps)
          /\ ~(procs'[p].op = "transfer" /\ procs'[p].cur = procs'[p].cur2))
       => RejectedUntouched(p)]_vars

C7_Witness ==
  \E p \in Workers :
    /\ Done(p) /\ procs[p].op = "transfer" /\ procs[p].cur # procs[p].cur2
    /\ procs[p].snap.bal[procs[p].cur] < procs[p].amount
    /\ procs[p].result = "INSUFFICIENT_BALANCE"

\* C8: a Send of a covered amount that ran alone, with no store failure,
\* leaves the balance reduced by the amount, every other balance and the
\* trading sub-state as they were, and one more Transaction: a completed
\* send of that amount and currency.
C8_SendEffect ==
  \A p \in Workers :
    LET r == procs[p] IN
    ( /\ r.op = "send" /\ Done(p) /\ Alone(p) /\ faults = 0
      /\ r.snap.bal[r.cur] >= r.amount )
    => /\ users[r.user].bal = [r.snap.bal EXCEPT ![r.cur] = @ - r.amount]
       /\ users[r.user].capital = r.snap.capital
       /\ users[r.user].profit = r.snap.profit
       /\ users[r.user].robot = r.snap.robot
       /\ Len(txns) = r.snapTx + 1
       /\ txns[Len(txns)].type = "send"
       /\ txns[Len(txns)].status = "completed"
       /\ txns[Len(txns)].amount = r.amount
       /\ txns[Len(txns)].currency = r.cur

\* C9: a toggle-on that found no job in mining status has created 9 jobs,
\* one per currency, 5 of type currency and 4 of type crypto, all in mining
\* status; a toggle-on that found a job in mining status has created none.
C9_ToggleOnCreatesNine ==
  \A p \in Workers :
    LET r == procs[p]
        made == SeqRange(r.made)
    IN
    (r.op = "toggleMining" /\ r.enabled /\ Done(p))
    => IF r.count = 0
       THEN /\ Len(r.made) = 9
            /\ \A c \in CurrencySet :
                 Cardinality({j \in made : jobs[j].currency = c /\ jobs[j].user = r.user}) = 1
            /\ Cardinality({j \in made : jobs[j].type = "currency"}) = 5
            /\ Cardinality({j \in made : jobs[j].type = "crypto"}) = 4
            /\ \A j \in made : jobs[j].targetAmount = TargetAmount(jobs[j].currency)
            /\ Alone(p) => \A j \in made : jobs[j].status = "mining"
       ELSE r.made = <<>>

C9_Witness ==
  \E p \in Workers :
    /\ procs[p].op = "toggleMining" /\ procs[p].enabled /\ Done(p)
    /\ procs[p].count = 0 /\ Len(procs[p].made) = 9 /\ Alone(p)

\* the job the sweep p handled last was credited, completed and succeeded
SweepCompleted(p) ==
  LET r == procs[p]
      id == r.prev.job
      j == jobs[id]
      T == j.targetAmount
      n == Len(jobs)
  IN
  /\ users[j.user].bal = [r.snap.bal EXCEPT ![j.currency] = @ + T]
  /\ j.status = "completed" /\ j.minedAmount = T /\ j.progress = 100
  /\ j.endTime # NoTime
  /\ Len(txns) = r.snapTx + 1
  /\ txns[Len(txns)].type = "mining" /\ txns[Len(txns)].amount = T
  /\ txns[Len(txns)].currency = j.currency /\ txns[Len(txns)].user = j.user
  /\ n = r.snapJobs + 1
  /\ Successors(id) = {n}
  /\ jobs[n].status = "mining" /\ jobs[n].user = j.user
  /\ jobs[n].currency = j.currency /\ jobs[n].targetAmount = T
  /\ \A k \in 1..(r.idx - 1) :
       \A s \in Successors(r.list[k].id) : jobs[s].status = "mining"

\* the sweep p has just handled a job, alone and with no store failure
SweepHandledAlone(p) ==
  /\ procs[p].op = "sweep" /\ procs[p].pc \in {"load", "done"}
  /\ procs[p].prev.job # 0
  /\ Alone(p) /\ faults = 0

C11_AppendOnly ==
  [][/\ Len(txns') >= Len(txns)
     /\ \A i \in 1..Len(txns) : txns'[i] = txns[i]]_vars

\* a completed Transaction is in the log and another was appended after it
C11_Witness ==
  /\ Len(txns) >= 2
  /\ txns[1].status = "completed"

\* C12: no two Transactions carry the same reference, and no
\* Transaction.create fails on a reference that is already in the log.
C12_UniqueReferences ==
  /\ [](\A i, k \in 1..Len(txns) : i # k => txns[i].reference # txns[k].reference)
  /\ [][\A p \in Workers :
          ~( /\ procs[p].pc = "record"
             /\ procs[p].ref # "" /\ RefTaken(procs[p].ref)
             /\ faults' = faults
             /\ procs'[p].pc = "done" /\ procs'[p].result = "FAILED" )]_vars

\* C13: a Transfer between two different currencies on a covered balance,
\* run alone and with no store failure, succeeds: it debits the amount,
\* credits the converted amount and appends one completed transfer
\* Transaction with fromCurrency, toCurrency, amount, convertedAmount and
\* exchangeRate.
C13_TransferEffect ==
  \A p \in Workers :
    LET r == procs[p]
        rate == ConversionRate(r.cur, r.cur2)
    IN
    ( /\ r.op = "transfer" /\ Done(p) /\ Alone(p) /\ faults = 0
      /\ r.cur # r.cur2
      /\ r.snap.bal[r.cur] >= r.amount )
    => /\ r.result = "OK"
       /\ users[r.user].bal = [r.snap.bal EXCEPT ![r.cur] = @ - r.amount,
                                                 ![r.cur2] = @ + Converted(r.amount, rate)]
       /\ Len(txns) = r.snapTx + 1
       /\ txns[Len(txns)].type = "transfer"
       /\ txns[Len(txns)].status = "completed"
       /\ txns[Len(txns)].fromCurrency = r.cur
       /\ txns[Len(txns)].toCurrency = r.cur2
       /\ txns[Len(txns)].amount = r.amount
       /\ txns[Len(txns)].convertedAmount = Converted(r.amount, rate)
       /\ txns[Len(txns)].exchangeRate = rate

\* C14: a Transfer whose source equals its target ends at once with
\* SameCurrency, whatever the balance, and writes nothing.
C14_SameCurrencyRejected ==
  [][\A p \in Workers :
       (Starts(p) /\ procs'[p].op = "transfer" /\ procs'[p].cur = procs'[p].cur2)
       => /\ procs'[p].pc = "done"
          /\ procs'[p].result = "SAME_CURRENCY"
          /\ users' = users /\ txns' = txns /\ notifs' = notifs /\ audits' = audits]_vars

\* a same-currency Transfer of more than the balance ended with SameCurrency
C14_Witness ==
  \E p \in Workers :
    /\ Done(p) /\ procs[p].op = "transfer" /\ procs[p].cur = procs[p].cur2
    /\ procs[p].snap.bal[procs[p].cur] < procs[p].amount
    /\ procs[p].result = "SAME_CURRENCY"

\* C15: the only step of a Transfer that writes balances is its save, and
\* that step either writes nothing or stores the debited and the credited
\* balance together.
C15_TransferVisibleTogether ==
  [][\A p \in Workers :
       LET r == procs[p] IN
       /\ (Starts(p) /\ procs'[p].op = "transfer") => users' = users
       /\ (r.op = "transfer" /\ r.pc = "record" /\ procs'[p].pc = "done") => users' = users
       /\ (r.op = "transfer" /\ r.pc = "save" /\ procs'[p].pc # "save")
          => \/ users' = users
             \/ /\ users'[r.user].bal[r.cur] = r.doc.bal[r.cur]
                /\ users'[r.user].bal[r.cur2] = r.doc.bal[r.cur2]]_vars

\* a Transfer has saved: the debit and the credit are both stored
C15_Witness ==
  \E p \in Workers :
    LET r == procs[p] IN
    /\ r.op = "transfer" /\ r.pc = "record" /\ r.cur # r.cur2
    /\ users[r.user].bal[r.cur] = r.snap.bal[r.cur] - r.amount
    /\ users[r.user].bal[r.cur2] =
         r.snap.bal[r.cur2] + Converted(r.amount, ConversionRate(r.cur, r.cur2))
    /\ users[r.user].bal[r.cur2] > r.snap.bal[r.cur2]

\* the job is completed with full progress and its target credited once
JobCompleted(id) ==
  /\ jobs[id].status = "completed"
  /\ jobs[id].credits = 1
  /\ jobs[id].progress = 100
  /\ jobs[id].minedAmount = jobs[id].targetAmount

\* the sweep p has ended, alone and with no store failure
SweepEndedAlone(p) ==
  /\ procs[p].op = "sweep" /\ Done(p)
  /\ Alone(p) /\ faults = 0

C17_CancelledTerminal ==
  [][\A j \in JobIds :
       jobs[j].status = "cancelled"
       => /\ jobs'[j].status = "cancelled"
          /\ jobs'[j].credits = jobs[j].credits
          /\ {k \in 1..Len(jobs') : jobs'[k].parent = j} = Successors(j)]_vars

\* the invocation p started after a toggle-off that is still in force
StartedAfterOff(p, off) == off > 0 /\ off < procs[p].seq

\* C18: a sweep that started after a mining toggle-off credits no balance
\* of that account, and a trading cycle that started after a trading
\* toggle-off changes neither its capital nor its profit, until the account
\* is toggled on again.
C18_OffStopsNextCycle ==
  [][\A p \in Workers :
       LET r == procs[p] IN
       /\ (r.op = "sweep" /\ r.pc = "save" /\ procs'[p].pc = "txn")
          => ~StartedAfterOff(p, offSeq[r.user].mining)
       /\ (r.op = "trading" /\ r.pc = "trade" /\ procs'[p].pc = "record")
          => ~StartedAfterOff(p, offSeq[r.list[r.idx].id].trading)]_vars

\* the sweep handled the job completely: credit, completion, one successor
JobProcessed(id) ==
  /\ jobs[id].status = "completed"
  /\ jobs[id].credits >= 1
  /\ \E n \in JobIds : Successors(id) = {n} /\ jobs[n].status = "mining"

\* the trading cycle p traded for the k-th account it loaded: the trade is
\* saved and its Transaction appended
UserTraded(p, k) ==
  LET u == procs[p].list[k].id
      d == procs[p].list[k].doc
  IN
  \/ d.capital <= 0
  \/ /\ users[u].capital # d.capital \/ users[u].profit # d.profit
     /\ \E i \in (procs[p].snapTx + 1)..Len(txns) :
          txns[i].user = u /\ txns[i].type = "trading"

\* C19: when a sweep or a trading cycle has ended, having run alone, the
\* jobs or accounts it did not handle completely are no more than the store
\* calls that failed: a failure costs the job or account it hit and no other.
C19_FailureConfined ==
  \A p \in Workers :
    (Done(p) /\ Alone(p))
    => /\ procs[p].op = "sweep"
          => Cardinality({k \in 1..Len(procs[p].list) :
                            ~JobProcessed(procs[p].list[k].id)}) <= faults
       /\ procs[p].op = "trading"
          => Cardinality({k \in 1..Len(procs[p].list) : ~UserTraded(p, k)}) <= faults

\* a sweep over two jobs met one failure, ended, and handled the other job
C19_Witness ==
  \E p \in Workers :
    /\ procs[p].op = "sweep" /\ Done(p) /\ Alone(p)
    /\ faults = 1 /\ procs[p].seq = 1
    /\ Len(procs[p].list) = 2
    /\ ~JobProcessed(procs[p].list[1].id)
    /\ JobProcessed(procs[p].list[2].id)

\* C20: after a failure of Notification.create or AuditLog.createLog the
\* ledger mutation stays: a handler keeps its Transaction and its saved
\* balance, and a sweep leaves the job completed with its successor created.
C20_SinkFailureKeepsLedger ==
  /\ \A p \in Workers :
       (Done(p) /\ procs[p].op \in EngineOps /\ procs[p].result = "FAILED"
          /\ procs[p].txnId # 0)
       => /\ procs[p].txnId <= Len(txns)
          /\ Alone(p) => users[procs[p].user].bal = procs[p].base.bal
  /\ \A p \in Workers :
       (procs[p].op = "sweep" /\ procs[p].prev.outcome = "sink_failed")
       => /\ jobs[procs[p].prev.job].status = "completed"
          /\ jobs[procs[p].prev.job].credits >= 1
          /\ Successors(procs[p].prev.job) # {}

\* the operations of one account that write a balance
LedgerOps ==
  {"send", "receive", "transfer", "international", "cryptoSend", "withdraw", "adminSet"}

\* C21: an operation that has ended, alone and with no store failure, and
\* has changed a balance of its account has appended a Transaction owned by
\* that account; so has a sweep for the job it handled last.
C21_EveryChangeRecorded ==
  \A p \in Workers :
    LET r == procs[p] IN
    ( /\ Alone(p) /\ faults = 0
      /\ \/ r.op \in LedgerOps /\ Done(p)
         \/ r.op = "sweep" /\ r.pc \in {"load", "done"} /\ r.prev.job # 0
      /\ users[r.user].bal # r.snap.bal )
    => /\ Len(txns) > r.snapTx
       /\ \A i \in (r.snapTx + 1)..Len(txns) : txns[i].user = r.user

\* the trading cycle p takes the turn of one account, with no store failure
TradeTurn(p) ==
  /\ procs[p].op = "trading" /\ procs[p].pc = "trade"
  /\ procs'[p].pc # "trade" \/ procs'[p].idx # procs[p].idx
  /\ faults' = faults

\* C22: in a trading cycle an account with capital > 0 gets one outcome: a
\* profit of tradeAmount * f, f in [0.02, 0.08], with the capital as it was,
\* or a capital of max(0, capital - 0.02 * tradeAmount) with the profit as
\* it was; one trading Transaction is recorded for it.  An account with
\* capital <= 0 is left as it was and gets no Transaction.
C22_TradingOutcome ==
  [][\A p \in Workers :
       LET r == procs[p]
           u == r.list[r.idx].id
           d == r.list[r.idx].doc
           ta == procs'[p].count
           gain == users'[u].profit - d.profit
       IN
       /\ TradeTurn(p)
          => IF d.capital <= 0
             THEN users' = users /\ txns' = txns /\ procs'[p].pc # "record"
             ELSE /\ procs'[p].pc = "record"
                  /\ users'[u].bal = users[u].bal
                  /\ \/ /\ users'[u].capital = users[u].capital
                        /\ 50 * (gain + 1) > ta
                        /\ 100 * gain <= 8 * ta
                     \/ /\ users'[u].profit = users[u].profit
                        /\ users'[u].capital = Max(0, d.capital - (ta \div 50))
       /\ (r.op = "trading" /\ r.pc = "record"
           /\ (procs'[p].pc # "record" \/ procs'[p].idx # r.idx) /\ faults' = faults)
          => /\ Len(txns') = Len(txns) + 1
             /\ txns'[Len(txns')].type = "trading"
             /\ txns'[Len(txns')].user = r.user]_vars

\* C23: the traded amount is between 1% and 5% of the capital the cycle
\* read.
C23_TradeAmountRange ==
  [][\A p \in Workers :
       LET r == procs[p]
           d == r.list[r.idx].doc
           ta == procs'[p].count
       IN
       (TradeTurn(p) /\ procs'[p].pc = "record")
       => /\ 100 * (ta + 1) > d.capital
          /\ 100 * ta <= 5 * d.capital]_vars

\* C24: a trading toggle changes no balance and no profit; toggling on sets
\* the capital to 10000 when the stored capital is zero and leaves it as it
\* is otherwise; toggling off leaves the capital as it is.
C24_ToggleTradingFrame ==
  [][\A p \in Workers :
       LET r == procs[p]
           u == procs'[p].user
       IN
       /\ (Starts(p) /\ procs'[p].op = "toggleTrading")
          => /\ users'[u].bal = users[u].bal
             /\ users'[u].profit = users[u].profit
             /\ users'[u].capital = users[u].capital
       /\ (r.op = "toggleTrading" /\ r.pc = "seed" /\ procs'[p].pc = "done")
          => /\ users'[u].bal = users[u].bal
             /\ users'[u].profit = users[u].profit
             /\ users'[u].capital =
                  IF users[u].capital = 0 THEN SeedCapital ELSE users[u].capital]_vars

\* C25: a Withdraw-profit that ran alone with no store failure: with a
\* profit p > 0 it has added p to the USD balance, zeroed the profit, kept
\* the capital and the other balances, and appended one trading Transaction
\* of amount p; with no profit it has ended with NO_PROFIT and changed
\* nothing.
C25_WithdrawEffect ==
  \A p \in Workers :
    LET r == procs[p] IN
    (r.op = "withdraw" /\ Done(p) /\ Alone(p) /\ faults = 0)
    => IF r.snap.profit > 0
       THEN /\ r.result = "OK"
            /\ users[r.user].bal = [r.snap.bal EXCEPT !["USD"] = @ + r.snap.profit]
            /\ users[r.user].profit = 0
            /\ users[r.user].capital = r.snap.capital
            /\ Len(txns) = r.snapTx + 1
            /\ txns[Len(txns)].type = "trading"
            /\ txns[Len(txns)].amount = r.snap.profit
            /\ txns[Len(txns)].currency = "USD"
            /\ txns[Len(txns)].user = r.user
       ELSE /\ r.result = "NO_PROFIT"
            /\ users[r.user] = r.snap
            /\ Len(txns) = r.snapTx

\* a Withdraw-profit of a positive profit has succeeded, alone
C25_Witness ==
  \E p \in Workers :
    /\ procs[p].op = "withdraw" /\ Done(p) /\ Alone(p) /\ faults = 0
    /\ procs[p].snap.profit > 0 /\ procs[p].result = "OK"

\* C26: a step of the progress ticker on a job in mining status leaves it
\* with the integer nearest to min(100, elapsed / 1h * 100), which is within
\* 0..100 and not below the progress the job had; a job that already has
\* the value the step computes is left
\* exactly as it was (idempotence); the step changes nothing else of the
\* job, no other job, no account and no Transaction.
C26_ProgressTicker ==
  [][\A p \in Workers :
       LET r == procs[p]
           id == r.list[r.idx].id
           e == now - jobs[id].startTime
           v == jobs'[id].progress
       IN
       (r.op = "progress" /\ r.pc = "tick"
        /\ (procs'[p].pc # "tick" \/ procs'[p].idx # r.idx))
       => /\ v \in 0..100
          /\ jobs[id].status = "mining"
             => /\ IF e >= CycleMinutes
                   THEN v = 100
                   ELSE /\ 2 * (v * CycleMinutes - 100 * e) <= CycleMinutes
                        /\ 2 * (100 * e - v * CycleMinutes) <= CycleMinutes
                /\ v >= jobs[id].progress
          /\ jobs[id].progress = v => jobs' = jobs
          /\ jobs' = [jobs EXCEPT ![id].progress = v]
          /\ users' = users /\ txns' = txns /\ ledger' = ledger]_vars

\* a ticker run has ended with a job in mining past its hour, capped at 100,
\* and with a job whose progress was rounded
C26_Witness ==
  \E p \in Workers :
    /\ procs[p].op = "progress" /\ Done(p)
    /\ \E j \in JobIds :
         /\ jobs[j].status = "mining" /\ jobs[j].progress = 100
         /\ now - jobs[j].startTime > CycleMinutes
    /\ \E j \in JobIds :
         /\ jobs[j].progress \in 1..99
         /\ (jobs[j].progress * CycleMinutes) % 100 # 0

\* the generator run p takes a step
AddressStep(p) ==
  /\ procs[p].op = "addresses" \/ (Starts(p) /\ procs'[p].op = "addresses")
  /\ procs'[p].pc # procs[p].pc \/ procs'[p].idx # procs[p].idx

\* C27: a step of the address generator changes no account (balances and
\* trading state), no Transaction, and of the jobs nothing but address rings
\* (and the version counter that belongs to them): no status, progress,
\* minedAmount or targetAmount, whatever runs in between.
C27_AddressesFrame ==
  [][\A p \in Workers :
       AddressStep(p)
       => /\ users' = users /\ ledger' = ledger /\ txns' = txns
          /\ Len(jobs') = Len(jobs)
          /\ \A j \in JobIds :
               jobs'[j] = [jobs[j] EXCEPT !.addresses = jobs'[j].addresses,
                                          !.ver = jobs'[j].ver]]_vars

\* a generator run that overlapped another invocation has ended, and an
\* address of its batch is in the ring of a job that a sweep completed
C27_Witness ==
  \E p \in Workers :
    /\ procs[p].op = "addresses" /\ Done(p) /\ ~procs[p].solo
    /\ \E j \in JobIds :
         /\ jobs[j].status = "completed"
         /\ \E k \in 1..Len(jobs[j].addresses) :
              jobs[j].addresses[k].serial \div 1000 = procs[p].seq

\* C28: every ring holds at most 100 entries, and a save on a ring that
\* holds 100 evicts the oldest entry and puts the new one last.
C28_RingBounded ==
  /\ [](\A j \in JobIds : Len(jobs[j].addresses) <= RingCapacity)
  /\ [][\A p \in Workers :
          LET r == procs[p]
              id == r.list[1].id
          IN
          (r.op = "addresses" /\ r.pc = "save" /\ AddressStep(p)
           /\ Len(jobs[id].addresses) = RingCapacity /\ procs'[p].result # "FAILED")
          => jobs'[id].addresses =
               Append(Tail(jobs[id].addresses), NewAddress(r, r.cur))]_vars

\* C29: an International transfer that ran alone with no store failure has
\* either been rejected with InsufficientBalance, writing nothing, or has
\* lowered the balance by the amount and appended one Transaction with
\* status processing; and no step takes a Transaction of status processing
\* to another status.
C29_InternationalEffect ==
  /\ [](\A p \in Workers :
          LET r == procs[p] IN
          (r.op = "international" /\ Done(p) /\ Alone(p) /\ faults = 0)
          => IF r.snap.bal[r.cur] < r.amount
             THEN /\ r.result = "INSUFFICIENT_BALANCE"
                  /\ users[r.user] = r.snap
                  /\ Len(txns) = r.snapTx
             ELSE /\ users[r.user].bal = [r.snap.bal EXCEPT ![r.cur] = @ - r.amount]
                  /\ users[r.user].bal[r.cur] <= r.snap.bal[r.cur]
                  /\ Len(txns) = r.snapTx + 1
                  /\ txns[Len(txns)].status = "processing"
                  /\ txns[Len(txns)].amount = r.amount
                  /\ txns[Len(txns)].currency = r.cur)
  /\ [][\A i \in 1..Len(txns) :
          txns[i].status = "processing"
          => Len(txns') >= i /\ txns'[i].status = "processing"]_vars

\* the currencies whose balance the invocation writes
TouchedBalances(r) ==
  CASE r.op \in {"send", "receive", "international", "cryptoSend", "adminSet"} -> {r.cur}
    [] r.op = "transfer" -> {r.cur, r.cur2}
    [] r.op = "withdraw" -> {"USD"}
    [] r.op = "sweep" -> {jobs[r.list[i].id].currency : i \in 1..Len(r.list)}
    [] OTHER -> {}

\* the operations that write the capital or the profit
TradingStateOps == {"withdraw", "trading", "toggleTrading"}

\* every invocation started so far holds a slot: none ran before another
NoneReplaced == Cardinality({p \in Workers : procs[p].op # "idle"}) = started

\* C30: of the invocations that overlap on one account, every balance that
\* at most one of them writes holds all the deltas saved on it, and the
\* outcome a trading cycle saved stays in place while the other invocations
\* write balances only.
C30_DisjointPreserved ==
  NoneReplaced
  => /\ \A u \in Users, c \in CurrencySet :
          Cardinality({p \in Workers : c \in TouchedBalances(procs[p])}) <= 1
          => users[u].bal[c] = ledger[u][c]
     /\ \A p \in Workers :
          LET r == procs[p] IN
          ( /\ r.op = "trading" /\ r.user # ""
            /\ \A q \in Workers \ {p} : procs[q].op \notin TradingStateOps )
          => /\ users[r.user].capital = r.doc.capital
             /\ users[r.user].profit = r.doc.profit

\* a Send in USD and a sweep that credited EUR have overlapped and ended
C30_Witness ==
  \E p, q \in Workers :
    /\ procs[p].op = "send" /\ Done(p) /\ procs[p].result = "OK"
    /\ procs[q].op = "sweep" /\ Done(q)
    /\ \E j \in JobIds : jobs[j].currency = "EUR" /\ jobs[j].credits > 0
    /\ users[procs[p].user].bal["EUR"] > 0

\* the profit the trading cycles still in their slots have saved
RECURSIVE AccruedBy(_)
AccruedBy(n) ==
  IF n = 0 THEN 0
  ELSE AccruedBy(n - 1)
       + (IF procs[n].op = "trading" /\ procs[n].user # "" /\ procs[n].enabled
          THEN procs[n].amount ELSE 0)

\* only trading cycles and Withdraw-profit calls have run, all still in
\* their slots
OnlyProfitOps ==
  /\ NoneReplaced
  /\ \A p \in Workers : procs[p].op \in {"idle", "trading", "withdraw"}

\* C31: with trading cycles and Withdraw-profit calls interleaved on one
\* account, the profit still held plus the amount the withdrawals credited
\* to USD never exceeds the initial profit plus the profit the cycles
\* accrued; and a trading cycle raises the stored profit by its own gain
\* only, so a withdrawn profit does not come back.
C31_ProfitConserved ==
  /\ [](OnlyProfitOps
        => \A u \in Users :
             users[u].profit + (users[u].bal["USD"] - InitBalance)
               <= InitProfit + AccruedBy(NumWorkers))
  /\ [][\A p \in Workers :
          LET r == procs[p]
              u == r.list[r.idx].id
          IN
          (TradeTurn(p) /\ procs'[p].pc = "record")
          => users'[u].profit - users[u].profit
               = (IF procs'[p].enabled THEN procs'[p].amount ELSE 0)]_vars

\* C32: every job with status completed has progress 100, its target as
\* mined amount and an end time, whatever the progress ticker or the address
\* generator saves after the sweep completed it.
C32_CompletedJobShape ==
  \A j \in JobIds :
    jobs[j].status = "completed"
    => /\ jobs[j].progress = 100
       /\ jobs[j].minedAmount = jobs[j].targetAmount
       /\ jobs[j].endTime # NoTime

\* a sweep is in its turn on job j, between the credit and the successor
InTurn(j) ==
  \E p \in Workers :
    /\ procs[p].op = "sweep" /\ procs[p].pc \in {"txn", "mark", "spawn"}
    /\ procs[p].list[procs[p].idx].id = j

\* C33: a job that has been credited, and that no sweep is still handling,
\* is not in mining status (so that no later sweep credits it again), also
\* after a store failure between the credit and the completion.
C33_CreditedOnce ==
  \A j \in JobIds :
    (jobs[j].credits > 0 /\ ~InTurn(j)) => jobs[j].status # "mining"

\* the invocation p takes a step of its own
Moves(p) == procs'[p].pc # procs[p].pc \/ procs'[p].idx # procs[p].idx

\* the step writes an account, a Transaction or a job
Writes == users' # users \/ txns' # txns \/ jobs' # jobs

\* C34: a sweep that reads a suspended or banned owner leaves the account,
\* the log and the job (its status included) as they are, and every write of a sweep's turn is for
\* an owner it read as active; a trading cycle loads active accounts only,
\* and each of its writes is for an account it read as active.
C34_InactiveUntouched ==
  [][\A p \in Workers :
       LET r == procs[p] IN
       /\ (r.op = "sweep" /\ r.pc = "load" /\ Moves(p)
            /\ users[jobs[r.list[r.idx].id].user].status # "active")
          => ~Writes /\ jobs'[r.list[r.idx].id].status = jobs[r.list[r.idx].id].status
       /\ (r.op = "sweep" /\ r.pc \in {"save", "txn", "mark", "spawn"} /\ Moves(p) /\ Writes)
          => r.base.status = "active"
       /\ (Starts(p) /\ procs'[p].op = "trading")
          => \A i \in 1..Len(procs'[p].list) : procs'[p].list[i].doc.status = "active"
       /\ (r.op = "trading" /\ r.pc \in {"trade", "record"} /\ Moves(p) /\ Writes)
          => r.list[r.idx].doc.status = "active"]_vars

\* a sweep has passed over the job of an owner who is not active
C34_Witness ==
  \E p \in Workers :
    /\ procs[p].op = "sweep" /\ procs[p].prev.outcome = "skipped"
    /\ users[jobs[procs[p].prev.job].user].status # "active"
    /\ jobs[procs[p].prev.job].status = "mining"
    /\ jobs[procs[p].prev.job].credits = 0

\* C35: the save of an International transfer never raises the balance of
\* the named currency, whatever amount the route accepted.
C35_DebitNeverIncreases ==
  [][\A p \in Workers :
       LET r == procs[p] IN
       (r.op = "international" /\ r.pc = "save" /\ Moves(p))
       => users'[r.user].bal[r.cur] <= users[r.user].bal[r.cur]]_vars

\* C37: when a Transfer from A to B has been followed by a Transfer of the
\* whole converted amount from B back to A, the account holds in A at most
\* what it held before the first of the two.
C37_RoundTripBound ==
  \A p \in Workers :
    LET r == procs[p] IN
    ( /\ r.op = "transfer" /\ Done(p) /\ Alone(p) /\ started = 2
      /\ r.cur \in FiatSet /\ r.cur2 \in FiatSet /\ r.cur # r.cur2
      /\ r.snap.bal[r.cur2] < InitBalance
      /\ r.snap.bal[r.cur] > InitBalance
      /\ r.amount = r.snap.bal[r.cur] - InitBalance )
    => users[r.user].bal[r.cur2] <= InitBalance

\* C38: capital and profit are never negative, and the save of a trading
\* cycle neither raises the stored capital nor lowers the stored profit.
C38_TradingMonotone ==
  /\ [](\A u \in Users : users[u].capital >= 0 /\ users[u].profit >= 0)
  /\ [][\A p \in Workers :
          LET r == procs[p]
              u == r.list[r.idx].id
          IN
          TradeTurn(p)
          => /\ users'[u].capital <= users[u].capital
             /\ users'[u].profit >= users[u].profit]_vars

\* the job ids a behaviour can reach: a sweep at most doubles the jobs
PerpetualJobIds == 1..(Len(MiningStarted) * 2^MaxOps)

\* no sweep is running
SweepsIdle == \A p \in Workers : Free(p)

\* the currencies the account mines
MinedCurrencies == {MiningStarted[i].currency : i \in DOMAIN MiningStarted}

\* job j exists with the given status
JobIs(j, st) == IF j \in JobIds THEN jobs[j].status = st ELSE FALSE

\* C36: with mining on, the account active and no store failure, every job
\* in mining status is completed once a sweep is still to start, and
\* whenever no sweep is running each mined currency has exactly one job of
\* the account in mining status.
C36_PerpetualCycle ==
  /\ \A j \in PerpetualJobIds :
       (JobIs(j, "mining") /\ started < quota) ~> (JobIs(j, "completed") \/ faults > 0)
  /\ []((SweepsIdle /\ faults = 0)
        => \A u \in Users, c \in MinedCurrencies : Cardinality(MiningJobsOf(u, c)) = 1)

\* the eventual completion alone
C36_EventuallyCompleted ==
  \A j \in PerpetualJobIds :
    (JobIs(j, "mining") /\ started < quota) ~> (JobIs(j, "completed") \/ faults > 0)

====
